---- MODULE Spec2Model ----
(***************************************************************************)
(* VideoPipeline (src/pipeline.py) as a state machine.                     *)
(*                                                                         *)
(* One VideoPipeline instance receives up to MaxRuns calls of run().  A    *)
(* call is a process with a program counter that walks the statements of   *)
(* run(): progress notification, stage transform, recording of the output  *)
(* in self.current_project["steps"], for each of the six stages, then      *)
(* _save_metadata, _print_summary and the return; any exception moves the  *)
(* call to the except clause of run().                                     *)
(*                                                                         *)
(* The stage transforms other than ScriptGenerator, the progress sink and  *)
(* the file system are collaborators of the orchestrator.  Their behaviour *)
(* is fixed per behaviour of the model by the record env, chosen in Init:  *)
(* which stage transform raises (and what), at which notification the sink *)
(* raises, whether the metadata write fails, and whether the scene plan    *)
(* carries the "scenes" key _print_summary reads.                          *)
(***************************************************************************)
EXTENDS Integers, Sequences, FiniteSets, TLC

VARIABLES
    pipeline,         \* the VideoPipeline instance: construction state and OpenAI key
    use_storyboard,   \* self.use_storyboard
    env,              \* behaviour of the collaborators (see above)
    clock,            \* wall clock, in seconds
    heap,             \* the project dicts created so far; a dict is named by its index
    current_project,  \* self.current_project: 0 for None, else an index of heap
    files,            \* OUTPUT_DIR: metadata file name -> content
    pc,               \* pc[r]: position of call r in run()
    locals,           \* locals[r]: the local variables and arguments of call r
    calls,            \* calls[r]: the stage transforms call r invoked, with arguments
    notes,            \* notes[r]: the notifications the sink of call r received
    saves,            \* saves[r]: number of times call r entered _save_metadata
    result            \* result[r]: what call r returned

vars == <<pipeline, use_storyboard, env, clock, heap, current_project, files,
          pc, locals, calls, notes, saves, result>>

(***************************************************************************)
(* Bounds and program constants                                            *)
(***************************************************************************)
MaxRuns == 2

TOTAL_STEPS == 6

TITLE_LIMIT == 50

Runs == 1..MaxRuns

Prompts == {"rainbows", "tides"}

StageKeys == <<"script", "scenes", "storyboard", "clips", "audio", "final_video">>

NumStages == Len(StageKeys)

None == [none |-> TRUE]

(***************************************************************************)
(* Exceptions.  str(e) of a KeyError is the repr of the key; of the other  *)
(* exceptions raised here it is the message.                               *)
(***************************************************************************)
NoError == [type |-> "none", msg |-> ""]

Str(e) == IF e.type = "KeyError" THEN "'" \o e.msg \o "'" ELSE e.msg

(***************************************************************************)
(* ScriptGenerator.generate (script_generator.py 23-70).  The upstream     *)
(* response is a transport failure of the call, a content that is not      *)
(* JSON, or a JSON object with some fields.                                *)
(***************************************************************************)
TransportFailure == [kind |-> "error"]

Unparseable == [kind |-> "text"]

Json(data) == [kind |-> "json", data |-> data]

\* The exception raised inside the try block of generate (46-65), if any:
\* by the upstream call, by json.loads or by the structure check.
RaisedInGenerate(resp) ==
    IF resp.kind = "error" THEN [type |-> "APIError", msg |-> "Connection error."]
    ELSE IF resp.kind = "text" THEN [type |-> "JSONDecodeError", msg |-> "Expecting value"]
    ELSE IF "title" \notin DOMAIN resp.data \/ "script" \notin DOMAIN resp.data
         THEN [type |-> "ValueError", msg |-> "Invalid script structure returned"]
    ELSE NoError

\* The except clauses of generate (67-70), in order.
Reraised(exc) ==
    IF exc.type = "JSONDecodeError"
    THEN [type |-> "ValueError", msg |-> "Failed to parse script response: " \o Str(exc)]
    ELSE [type |-> "RuntimeError", msg |-> "Script generation failed: " \o Str(exc)]

Generate(resp) ==
    IF RaisedInGenerate(resp) # NoError
    THEN [ok |-> FALSE, value |-> None, exc |-> Reraised(RaisedInGenerate(resp))]
    ELSE [ok |-> TRUE, value |-> resp.data, exc |-> NoError]

\* A JSON object without the 'script' field.
MissingScript == Json([title |-> <<"H", "o", "w">>])

\* What ScriptGenerator.generate raises on a response that fails validation.
ScriptErrors == { Generate(resp).exc : resp \in {Unparseable, MissingScript} }

\* What another stage transform may raise: any Exception, with any message.
ProviderErrors ==
    { [type |-> "RuntimeError", msg |-> "provider unavailable"],
      [type |-> "Exception",    msg |-> ""] }

StageErrors(k) == IF k = 1 THEN ScriptErrors ELSE ProviderErrors

SinkError == [type |-> "RuntimeError", msg |-> "progress sink failed"]

WriteError == [type |-> "OSError", msg |-> "No such file or directory"]

(***************************************************************************)
(* The collaborators' behaviour                                            *)
(***************************************************************************)
Phases == {"starting", "completed", "skipped"}

SinkPoints ==
    { <<k, ph>> : k \in 1..NumStages, ph \in {"starting", "completed"} } \cup { <<3, "skipped">> }

NeverRaises == <<0, "never">>

\* The script a well-behaved upstream returns for a prompt.
TitleOf(prompt) == IF prompt = "rainbows" THEN <<"H", "o", "w", " ", "?">> ELSE <<"a", "-", "b", "!", "1">>

ScriptOutput(prompt) == [title |-> TitleOf(prompt), script |-> prompt]

\* The upstream responses, per prompt, under which generate raises exc, and
\* those under which it returns the script of the prompt.
UpstreamRaising(exc) ==
    [p \in Prompts |-> CHOOSE resp \in {Unparseable, MissingScript} : Generate(resp).exc = exc]

UpstreamGood == [p \in Prompts |-> Json(ScriptOutput(p))]

\* At most one of: a stage transform raises, the metadata write fails, the
\* scene plan lacks "scenes".  run() stops at the first of them, so a second
\* one would never be reached.
Faults ==
    { e \in [ failStage     : 0..NumStages,
              stageError    : ScriptErrors \cup ProviderErrors \cup {NoError},
              writeFails    : BOOLEAN,
              planHasScenes : BOOLEAN,
              sinkRaisesAt  : SinkPoints \cup {NeverRaises} ] :
        /\ IF e.failStage = 0 THEN e.stageError = NoError
                              ELSE e.stageError \in StageErrors(e.failStage)
        /\ e.failStage # 0 => (~e.writeFails /\ e.planHasScenes)
        /\ e.writeFails => e.planHasScenes }

\* The script transform raises (failStage = 1) exactly when the upstream
\* response fails validation.
WithUpstream(e, upstream) ==
    [failStage |-> e.failStage, stageError |-> e.stageError, writeFails |-> e.writeFails,
     planHasScenes |-> e.planHasScenes, sinkRaisesAt |-> e.sinkRaisesAt,
     upstream |-> upstream]

Envs ==
    { WithUpstream(e, IF e.failStage = 1 THEN UpstreamRaising(e.stageError) ELSE UpstreamGood) :
        e \in Faults }

(***************************************************************************)
(* Outputs of the stage transforms, as functions of their arguments        *)
(***************************************************************************)
ScenePlan(script_data, hasScenes) ==
    IF hasScenes THEN [scenes |-> <<1, 2>>, script |-> script_data.script]
                 ELSE [shots  |-> <<1, 2>>, script |-> script_data.script]

StoryboardImages(scene_plan) == [images |-> <<1, 2>>, script |-> scene_plan.script]

ClipPaths(scene_plan, storyboard_images) ==
    [clips |-> <<1, 2>>, script |-> scene_plan.script,
     from_images |-> storyboard_images # None]

AudioPath(script_data) == [audio |-> script_data.script]

FinalVideo(clip_paths, audio_path, output_path) ==
    [video |-> output_path, clips |-> clip_paths.script, audio |-> audio_path.audio]

(***************************************************************************)
(* Output filename (pipeline.py 151-156)                                   *)
(***************************************************************************)
Alnum == {"H", "o", "w", "a", "b", "1"}

Keep(c) == c \in Alnum \/ c \in {" ", "-", "_"}

Prefix(s, n) == SubSeq(s, 1, IF Len(s) < n THEN Len(s) ELSE n)

\* SafeTitle with the slice taken before the characters are filtered.
SafeTitleSliceFirst(title) ==
    LET kept == SelectSeq(SubSeq(title, 1, IF Len(title) < TITLE_LIMIT THEN Len(title)
                                                                       ELSE TITLE_LIMIT),
                          LAMBDA c : c \in Alnum \/ c \in {" ", "-", "_"})
    IN  [i \in 1..Len(kept) |-> IF kept[i] = " " THEN "_" ELSE kept[i]]

SafeTitle(title) ==
    LET kept == SelectSeq(title, Keep)
        repl == [i \in 1..Len(kept) |-> IF kept[i] = " " THEN "_" ELSE kept[i]]
    IN  Prefix(repl, TITLE_LIMIT)

DerivedFilename(title, timestamp) == SafeTitle(title) \o <<"_", timestamp, ".mp4">>

Timestamp(c) == "20240101_00000" \o ToString(c)

(***************************************************************************)
(* Program counter                                                         *)
(***************************************************************************)
At(k, what) == <<k, what>>

Entry == At(0, "entry")

Except == At(0, "except")

Returned == At(0, "returned")

\* The call ended with an exception propagating to the caller of run().
Propagated == At(0, "propagated")

\* The try block of run() spans lines 87-175: every statement from the first
\* notification to the return.
InTry(p) == p \notin {Entry, Except, Returned, Propagated}

\* except Exception: the classes derived from Exception.
ExceptionClasses == {"Exception", "ValueError", "RuntimeError", "OSError", "KeyError"}

\* RaiseTarget with a try block that ends before _save_metadata.
RaiseTargetNarrowTry(p, exc) ==
    IF InTry(p) /\ p[2] \notin {"save_metadata", "print_summary"}
                /\ exc.type \in ExceptionClasses
    THEN Except ELSE Propagated

\* RaiseTarget with a handler around each stage transform that swallows the
\* exception and carries on with the stage's 'completed' notification.
RaiseTargetSwallow(p, exc) ==
    IF p[2] = "call" THEN At(p[1], "notify_done") ELSE Except

\* Where control goes when exception exc is raised by the statement at p.
\* RaiseTarget with the metadata written on the way to the except clause.
RaiseTargetSaveOnFailure(p, exc) ==
    IF InTry(p) /\ exc.type \in ExceptionClasses THEN At(0, "save_metadata") ELSE Propagated

RaiseTarget(p, exc) ==
    IF InTry(p) /\ exc.type \in ExceptionClasses THEN Except ELSE Propagated

\* AfterStage with the storyboard stage run whatever self.use_storyboard is.
AfterStageAlwaysStoryboard(k) ==
    IF k < NumStages THEN At(k + 1, "notify_start") ELSE At(0, "save_metadata")

\* AfterStage with the clip stage started a second time after it completed.
AfterStageRepeatClips(k) ==
    IF k = 2 THEN (IF use_storyboard THEN At(3, "notify_start") ELSE At(3, "notify_skip"))
    ELSE IF k = 4 THEN At(4, "notify_start")
    ELSE IF k < NumStages THEN At(k + 1, "notify_start")
    ELSE At(0, "save_metadata")

\* AfterStage with the voice stage run again after it completed.
AfterStageRetryAudio(k) ==
    IF k = 2 THEN (IF use_storyboard THEN At(3, "notify_start") ELSE At(3, "notify_skip"))
    ELSE IF k = 5 THEN At(5, "notify_start")
    ELSE IF k < NumStages THEN At(k + 1, "notify_start")
    ELSE At(0, "save_metadata")

\* The statement after the 'completed' notification of stage k.
AfterStage(k) ==
    IF k = 2 THEN (IF use_storyboard THEN At(3, "notify_start") ELSE At(3, "notify_skip"))
    ELSE IF k < NumStages THEN At(k + 1, "notify_start")
    ELSE At(0, "save_metadata")

Steps(p) == heap[p].steps

StepKeys(p) == [i \in 1..Len(Steps(p)) |-> Steps(p)[i].key]

\* SetStep with the dict replaced by one that holds the new key only.
SetStepFresh(steps, key, val) == <<[key |-> key, val |-> val]>>

\* self.current_project["steps"][key] = val: a dict keeps the position of a
\* key it already holds.
SetStep(steps, key, val) ==
    IF \E i \in 1..Len(steps) : steps[i].key = key
    THEN [i \in 1..Len(steps) |-> IF steps[i].key = key THEN [key |-> key, val |-> val]
                                                        ELSE steps[i]]
    ELSE Append(steps, [key |-> key, val |-> val])

HasStep(p, key) == \E i \in 1..Len(Steps(p)) : Steps(p)[i].key = key

StepVal(p, key) == Steps(p)[CHOOSE i \in 1..Len(Steps(p)) : Steps(p)[i].key = key].val

(***************************************************************************)
(* Construction (pipeline.py 27-57, script_generator.py 17-21)             *)
(***************************************************************************)
NoKey == ""

\* self.api_key = api_key or OPENAI_API_KEY
ResolveKey(api_key, configured) == IF api_key # NoKey THEN api_key ELSE configured

\* KeyMissing with the check of the key left out.
KeyMissingNever(key) == FALSE

\* if not self.api_key
KeyMissing(key) == key = NoKey

Unbuilt(api_key, configured) ==
    [state |-> "unbuilt", openai_api_key |-> api_key, OPENAI_API_KEY |-> configured,
     api_key |-> NoKey, error |-> NoError]

\* VideoPipeline(openai_api_key=...): ScriptGenerator.__init__ raises
\* ValueError when no key is passed and none is configured.
Constructed(p) ==
    LET key == ResolveKey(p.openai_api_key, p.OPENAI_API_KEY) IN
    IF KeyMissing(key)
    THEN [p EXCEPT !.state = "error",
                   !.error = [type |-> "ValueError", msg |-> "OpenAI API key is required"]]
    ELSE [p EXCEPT !.state = "ready", !.api_key = key]

(***************************************************************************)
(* Init: the state after VideoPipeline.__init__                            *)
(***************************************************************************)
NoFilename == <<>>

FilenameOptions == {NoFilename}

InitLocals ==
    [user_prompt |-> "", output_filename |-> NoFilename, progress_callback |-> FALSE,
     timestamp |-> "", script_data |-> None, scene_plan |-> None,
     storyboard_images |-> None, clip_paths |-> None, audio_path |-> None,
     final_video |-> None, e |-> NoError]

Init ==
    /\ pipeline = Constructed(Unbuilt("sk-passed", NoKey))
    /\ use_storyboard \in BOOLEAN
    /\ env \in Envs
    /\ clock = 0
    /\ heap = <<>>
    /\ current_project = 0
    /\ files = {}
    /\ pc = [r \in Runs |-> Entry]
    /\ locals = [r \in Runs |-> InitLocals]
    /\ calls = [r \in Runs |-> <<>>]
    /\ notes = [r \in Runs |-> <<>>]
    /\ saves = [r \in Runs |-> 0]
    /\ result = [r \in Runs |-> None]

(***************************************************************************)
(* Building blocks of the steps of run()                                   *)
(***************************************************************************)
\* An exception raised inside the try block: control goes to the except clause.
Raise(r, exc) ==
    /\ pc' = [pc EXCEPT ![r] = RaiseTarget(pc[r], exc)]
    /\ locals' = [locals EXCEPT ![r].e = exc]

Goto(r, next) ==
    /\ pc' = [pc EXCEPT ![r] = next]
    /\ UNCHANGED locals

\* if progress_callback: progress_callback(k, 6, label, detail)
Emit(r, k, phase, detail, next) ==
    IF locals[r].progress_callback
    THEN /\ notes' = [notes EXCEPT ![r] =
                        Append(@, [step |-> k, total |-> TOTAL_STEPS,
                                   phase |-> phase, detail |-> detail])]
         /\ IF env.sinkRaisesAt = <<k, phase>> THEN Raise(r, SinkError) ELSE Goto(r, next)
    ELSE /\ UNCHANGED notes
         /\ Goto(r, next)

\* The name, the arguments and the output of the transform of stage k, and
\* the local variable that receives the output.
StageFn(k) ==
    <<"script_gen.generate", "scene_planner.create_plan", "storyboard_gen.generate",
      "video_gen.generate_clips", "audio_gen.generate", "assembler.assemble">>[k]

StageLocal(k) ==
    <<"script_data", "scene_plan", "storyboard_images", "clip_paths", "audio_path",
      "final_video">>[k]

OutputFilename(l) ==
    IF l.output_filename = NoFilename
    THEN DerivedFilename(l.script_data.title, l.timestamp)
    ELSE l.output_filename

\* StageArgs with the scene plan passed for the storyboard images.
StageArgsPlanAsImages(l, k) ==
    CASE k = 1 -> [user_prompt |-> l.user_prompt]
      [] k = 2 -> [script_data |-> l.script_data]
      [] k = 3 -> [scene_plan |-> l.scene_plan]
      [] k = 4 -> [scene_plan |-> l.scene_plan, storyboard_images |-> l.scene_plan]
      [] k = 5 -> [script_data |-> l.script_data]
      [] k = 6 -> [clip_paths |-> l.clip_paths, audio_path |-> l.audio_path,
                   output_path |-> OutputFilename(l)]

\* StageArgs with the scene plan passed to the voice generator.
StageArgsAudioFromPlan(l, k) ==
    CASE k = 1 -> [user_prompt |-> l.user_prompt]
      [] k = 2 -> [script_data |-> l.script_data]
      [] k = 3 -> [scene_plan |-> l.scene_plan]
      [] k = 4 -> [scene_plan |-> l.scene_plan, storyboard_images |-> l.storyboard_images]
      [] k = 5 -> [script_data |-> l.scene_plan]
      [] k = 6 -> [clip_paths |-> l.clip_paths, audio_path |-> l.audio_path,
                   output_path |-> OutputFilename(l)]

StageArgs(l, k) ==
    CASE k = 1 -> [user_prompt |-> l.user_prompt]
      [] k = 2 -> [script_data |-> l.script_data]
      [] k = 3 -> [scene_plan |-> l.scene_plan]
      [] k = 4 -> [scene_plan |-> l.scene_plan, storyboard_images |-> l.storyboard_images]
      [] k = 5 -> [script_data |-> l.script_data]
      [] k = 6 -> [clip_paths |-> l.clip_paths, audio_path |-> l.audio_path,
                   output_path |-> OutputFilename(l)]

StageOutput(l, k) ==
    CASE k = 1 -> Generate(env.upstream[l.user_prompt]).value
      [] k = 2 -> ScenePlan(l.script_data, env.planHasScenes)
      [] k = 3 -> StoryboardImages(l.scene_plan)
      [] k = 4 -> ClipPaths(l.scene_plan, l.storyboard_images)
      [] k = 5 -> AudioPath(l.script_data)
      [] k = 6 -> FinalVideo(l.clip_paths, l.audio_path, OutputFilename(l))

\* Whether the transform of stage k raises, and what.
StageRaises(l, k) ==
    IF k = 1 THEN ~Generate(env.upstream[l.user_prompt]).ok ELSE env.failStage = k

StageException(l, k) ==
    IF k = 1 THEN Generate(env.upstream[l.user_prompt]).exc ELSE env.stageError

\* The detail text of the 'starting' and of the 'completed' notification.
StartDetail(l, k) == [about |-> StageFn(k)]

DoneDetail(l, k) ==
    CASE k = 1 -> [title |-> l.script_data.title]
      [] k = 2 -> [count |-> IF "scenes" \in DOMAIN l.scene_plan
                             THEN Len(l.scene_plan.scenes) ELSE 0]
      [] k = 3 -> [count |-> Len(l.storyboard_images.images)]
      [] k = 4 -> [count |-> Len(l.clip_paths.clips)]
      [] k = 5 -> [name |-> l.audio_path.audio]
      [] k = 6 -> [saved |-> l.output_filename]

(***************************************************************************)
(* The steps of run()                                                      *)
(***************************************************************************)
Idle == \A q \in Runs : pc[q] \in {Entry, Returned, Propagated}

\* Lines 73-85: a new project dict is bound to self.current_project.
RunStart(r) ==
    /\ pipeline.state = "ready"
    /\ pc[r] = Entry
    /\ \A q \in 1..(r - 1) : pc[q] # Entry
    /\ \E prompt \in Prompts, cb \in BOOLEAN, fn \in FilenameOptions :
         locals' = [locals EXCEPT ![r] =
                      [InitLocals EXCEPT !.user_prompt = prompt,
                                         !.progress_callback = cb,
                                         !.output_filename = fn,
                                         !.timestamp = Timestamp(clock)]]
    /\ heap' = Append(heap, [prompt    |-> locals'[r].user_prompt,
                             timestamp |-> locals'[r].timestamp,
                             steps     |-> <<>>])
    /\ current_project' = Len(heap) + 1
    /\ pc' = [pc EXCEPT ![r] = At(1, "notify_start")]
    /\ UNCHANGED <<pipeline, use_storyboard, env, clock, files, calls, notes, saves, result>>

\* One call of run() at a time on the instance.
SequentialRunStart(r) == Idle /\ RunStart(r)

\* Lines 89-90, 99-100, 111-112, 126-127, 136-137, 146-147.
NotifyStart(r) ==
    \E k \in 1..NumStages :
        /\ pc[r] = At(k, "notify_start")
        /\ Emit(r, k, "starting", StartDetail(locals[r], k), At(k, "call"))
        /\ UNCHANGED <<pipeline, use_storyboard, env, clock, heap, current_project, files,
                       calls, saves, result>>

\* Lines 93, 103, 115, 130, 140, 151-157: the stage transform is invoked and
\* either raises or returns its output into the local variable.
StageCall(r) ==
    \E k \in 1..NumStages :
        /\ pc[r] = At(k, "call")
        /\ calls' = [calls EXCEPT ![r] =
                       Append(@, [fn |-> StageFn(k), args |-> StageArgs(locals[r], k)])]
        /\ IF StageRaises(locals[r], k)
           THEN /\ pc' = [pc EXCEPT ![r] = RaiseTarget(pc[r], StageException(locals[r], k))]
                /\ locals' = [locals EXCEPT ![r].e = StageException(locals[r], k),
                                            ![r].output_filename =
                                                IF k = 6 THEN OutputFilename(locals[r]) ELSE @]
           ELSE /\ pc' = [pc EXCEPT ![r] = At(k, "record")]
                /\ locals' = [locals EXCEPT ![r][StageLocal(k)] = StageOutput(locals[r], k),
                                            ![r].output_filename =
                                                IF k = 6 THEN OutputFilename(locals[r]) ELSE @]
        /\ UNCHANGED <<pipeline, use_storyboard, env, clock, heap, current_project, files,
                       notes, saves, result>>

\* Lines 94, 104, 116, 131, 141, 158: self.current_project["steps"][key] = output.
StageRecord(r) ==
    \E k \in 1..NumStages :
        /\ pc[r] = At(k, "record")
        /\ heap' = [heap EXCEPT ![current_project].steps =
                      SetStep(@, StageKeys[k], locals[r][StageLocal(k)])]
        /\ Goto(r, At(k, "notify_done"))
        /\ UNCHANGED <<pipeline, use_storyboard, env, clock, current_project, files,
                       calls, notes, saves, result>>

\* Lines 95-96, 105-106, 117-118, 132-133, 142-143, 159-160.
NotifyDone(r) ==
    \E k \in 1..NumStages :
        /\ pc[r] = At(k, "notify_done")
        /\ Emit(r, k, "completed", DoneDetail(locals[r], k), AfterStage(k))
        /\ UNCHANGED <<pipeline, use_storyboard, env, clock, heap, current_project, files,
                       calls, saves, result>>

\* Lines 119-123: the storyboard stage is skipped.
NotifySkip(r) ==
    /\ pc[r] = At(3, "notify_skip")
    /\ Emit(r, 3, "skipped", [about |-> "text-to-video"], At(4, "notify_start"))
    /\ UNCHANGED <<pipeline, use_storyboard, env, clock, heap, current_project, files,
                   calls, saves, result>>

\* Lines 163, 184-191: _save_metadata.
MetadataName(p) == "project_" \o heap[p].timestamp \o ".json"

WriteFile(fs, name, content) ==
    { f \in fs : f.name # name } \cup { [name |-> name, content |-> content] }

SaveMetadata(r) ==
    /\ pc[r] = At(0, "save_metadata")
    /\ saves' = [saves EXCEPT ![r] = @ + 1]
    /\ IF env.writeFails
       THEN /\ Raise(r, WriteError)
            /\ UNCHANGED files
       ELSE /\ files' = WriteFile(files, MetadataName(current_project), heap[current_project])
            /\ Goto(r, At(0, "print_summary"))
    /\ UNCHANGED <<pipeline, use_storyboard, env, clock, heap, current_project, calls, notes, result>>

\* Lines 166, 193-201: _print_summary reads steps.script.title and
\* steps.scenes.scenes of self.current_project.
SummaryError(p) ==
    IF ~HasStep(p, "script") THEN [type |-> "KeyError", msg |-> "script"]
    ELSE IF "title" \notin DOMAIN StepVal(p, "script") THEN [type |-> "KeyError", msg |-> "title"]
    ELSE IF ~HasStep(p, "scenes") THEN [type |-> "KeyError", msg |-> "scenes"]
    ELSE IF "scenes" \notin DOMAIN StepVal(p, "scenes") THEN [type |-> "KeyError", msg |-> "scenes"]
    ELSE NoError

PrintSummary(r) ==
    /\ pc[r] = At(0, "print_summary")
    /\ IF SummaryError(current_project) # NoError
       THEN Raise(r, SummaryError(current_project))
       ELSE Goto(r, At(0, "return"))
    /\ UNCHANGED <<pipeline, use_storyboard, env, clock, heap, current_project, files,
                   calls, notes, saves, result>>

\* Lines 168-174.
SuccessResult(l, p) ==
    [success |-> TRUE, video_path |-> l.final_video, script |-> l.script_data,
     scenes |-> l.scene_plan, project_data |-> p]

ReturnSuccess(r) ==
    /\ pc[r] = At(0, "return")
    /\ result' = [result EXCEPT ![r] = SuccessResult(locals[r], current_project)]
    /\ Goto(r, Returned)
    /\ UNCHANGED <<pipeline, use_storyboard, env, clock, heap, current_project, files,
                   calls, notes, saves>>

\* FailureResult with the exception's class name for its message.
FailureResultTypeName(l, p) == [success |-> FALSE, error |-> l.e.type, project_data |-> p]

\* Lines 176-182: except Exception as e.
FailureResult(l, p) == [success |-> FALSE, error |-> Str(l.e), project_data |-> p]

HandleException(r) ==
    /\ pc[r] = Except
    /\ result' = [result EXCEPT ![r] = FailureResult(locals[r], current_project)]
    /\ Goto(r, Returned)
    /\ UNCHANGED <<pipeline, use_storyboard, env, clock, heap, current_project, files,
                   calls, notes, saves>>

Step(r) ==
    \/ NotifyStart(r)
    \/ StageCall(r)
    \/ StageRecord(r)
    \/ NotifyDone(r)
    \/ NotifySkip(r)
    \/ SaveMetadata(r)
    \/ PrintSummary(r)
    \/ ReturnSuccess(r)
    \/ HandleException(r)

Next == \E r \in Runs : SequentialRunStart(r) \/ Step(r)

Spec == Init /\ [][Next]_vars

(***************************************************************************)
(* Two calls of run() on the instance with their steps interleaved (two    *)
(* threads of one process), every collaborator well behaved.               *)
(***************************************************************************)
QuietEnv ==
    WithUpstream([failStage |-> 0, stageError |-> NoError, writeFails |-> FALSE,
                  planHasScenes |-> TRUE, sinkRaisesAt |-> NeverRaises], UpstreamGood)

InitConc == Init /\ env = QuietEnv

NextConc == \E r \in Runs : RunStart(r) \/ Step(r)

SpecConc == InitConc /\ [][NextConc]_vars

(***************************************************************************)
(* Calls of run() one after the other while the wall clock advances: the   *)
(* clock counts whole seconds, the resolution of the strftime format of    *)
(* line 80, and may or may not tick between two calls.                     *)
(***************************************************************************)
MaxClock == 2

Tick ==
    /\ clock < MaxClock
    /\ clock' = clock + 1
    /\ UNCHANGED <<pipeline, use_storyboard, env, heap, current_project, files, pc, locals,
                   calls, notes, saves, result>>

InitClock ==
    /\ Init
    /\ env.sinkRaisesAt = NeverRaises
    /\ env.failStage \in {0, 4}

NextClock == Tick \/ \E r \in Runs : SequentialRunStart(r) \/ Step(r)

SpecClock == InitClock /\ [][NextClock]_vars

(***************************************************************************)
(* Construction of the instance, then calls of run() one after the other:  *)
(* VideoPipeline(openai_api_key=...) is evaluated with and without a key   *)
(* passed and with and without OPENAI_API_KEY configured.  A constructor   *)
(* that raised leaves no instance to call run() on.                        *)
(***************************************************************************)
PassedKeys == {NoKey, "sk-passed"}

ConfiguredKeys == {NoKey, "sk-env"}

Construct ==
    /\ pipeline.state = "unbuilt"
    /\ pipeline' = Constructed(pipeline)
    /\ UNCHANGED <<use_storyboard, env, clock, heap, current_project, files, pc, locals,
                   calls, notes, saves, result>>

InitBuild ==
    /\ pipeline \in { Unbuilt(a, c) : a \in PassedKeys, c \in ConfiguredKeys }
    /\ use_storyboard \in BOOLEAN
    /\ env \in { e \in Envs : e.sinkRaisesAt = NeverRaises /\ e.failStage \in {0, 5} }
    /\ clock = 0
    /\ heap = <<>>
    /\ current_project = 0
    /\ files = {}
    /\ pc = [r \in Runs |-> Entry]
    /\ locals = [r \in Runs |-> InitLocals]
    /\ calls = [r \in Runs |-> <<>>]
    /\ notes = [r \in Runs |-> <<>>]
    /\ saves = [r \in Runs |-> 0]
    /\ result = [r \in Runs |-> None]

NextBuild == Construct \/ \E r \in Runs : SequentialRunStart(r) \/ Step(r)

SpecBuild == InitBuild /\ [][NextBuild]_vars

(***************************************************************************)
(* Calls of run() one after the other against an upstream model whose      *)
(* response is drawn from a bounded set: scripts with every short title    *)
(* over TitleChars, titles around the length limit, and responses that     *)
(* fail, do not parse, lack a field or hold an empty field.  Every other   *)
(* collaborator is well behaved.                                           *)
(***************************************************************************)
MaxTitleLen == 3

TitleChars == {"a", " ", "?"}

ShortTitles == UNION { [1..n -> TitleChars] : n \in 0..MaxTitleLen }

\* A title of n characters that are all kept, and one with n kept
\* characters and a character that is not kept after every tenth of them.
KeptTitle(n) == [i \in 1..n |-> <<"a", "1", "_", "-", " ">>[(i % 5) + 1]]

SparseTitle(n) == [i \in 1..(n + (n \div 10)) |-> IF i % 11 = 0 THEN "/" ELSE "b"]

LongTitles ==
    { KeptTitle(n) : n \in (TITLE_LIMIT - 1)..(TITLE_LIMIT + 2) } \cup
    { SparseTitle(TITLE_LIMIT + 1) }

Scripts == { Json([title |-> t, script |-> "narration"]) : t \in ShortTitles \cup LongTitles }

MissingTitle == Json([script |-> "narration"])

EmptyScript == Json([title |-> <<"a">>, script |-> ""])

Irregular == {TransportFailure, Unparseable, MissingScript, MissingTitle, EmptyScript}

Upstreams ==
    { [p \in Prompts |-> resp] : resp \in Scripts } \cup [Prompts -> Irregular]

InitUpstream ==
    /\ pipeline = Constructed(Unbuilt("sk-passed", NoKey))
    /\ use_storyboard = FALSE
    /\ env \in { WithUpstream(QuietEnv, u) : u \in Upstreams }
    /\ clock = 0
    /\ heap = <<>>
    /\ current_project = 0
    /\ files = {}
    /\ pc = [r \in Runs |-> Entry]
    /\ locals = [r \in Runs |-> InitLocals]
    /\ calls = [r \in Runs |-> <<>>]
    /\ notes = [r \in Runs |-> <<>>]
    /\ saves = [r \in Runs |-> 0]
    /\ result = [r \in Runs |-> None]

SpecUpstream == InitUpstream /\ [][Next]_vars

(***************************************************************************)
(* Properties                                                              *)
(***************************************************************************)
Done(r) == pc[r] = Returned

Failed(r) == Done(r) /\ ~result[r].success

Succeeded(r) == Done(r) /\ result[r].success

\* The project dict the result of call r refers to.
ProjectOf(r) == heap[result[r].project_data]

\* The transform of the stage env.failStage has been invoked by call r, and
\* so has raised.
StageRaised(r) ==
    /\ env.failStage # 0
    /\ \E i \in 1..Len(calls[r]) : calls[r][i].fn = StageFn(env.failStage)

\* C1: run never lets an exception escape: whichever stage transform,
\* progress notification, metadata write or summary step raises, the call
\* never ends by propagating, and when it ends it has returned a dict with a
\* boolean 'success' and a 'project_data'.
C1_NoExceptionEscapes ==
    \A r \in Runs :
        /\ pc[r] # Propagated
        /\ Done(r) => /\ {"success", "project_data"} \subseteq DOMAIN result[r]
                      /\ result[r].success \in BOOLEAN
                      /\ result[r].project_data \in 1..Len(heap)

\* A call returned after its metadata write or its summary raised.
C1_Witness ==
    \E r \in Runs :
        /\ Done(r)
        /\ locals[r].e.type \in {"OSError", "KeyError"}
        /\ {"success", "project_data"} \subseteq DOMAIN result[r]

\* C2: once a stage transform has raised, control is in the except clause
\* or the call has returned; from then on no stage transform is invoked and
\* no notification is emitted by that call, and it returns success = false.
C2_StageFailureAborts ==
    /\ [](\A r \in Runs : StageRaised(r) => pc[r] \in {Except, Returned})
    /\ [][\A r \in Runs : StageRaised(r) =>
              /\ calls'[r] = calls[r]
              /\ notes'[r] = notes[r]
              /\ pc'[r] = Returned => ~result'[r].success]_vars

\* The scene planner raised in a call with a progress callback; the call
\* returned failure after one notification for step 2 and two transform calls.
C2_Witness ==
    \E r \in Runs :
        /\ env.failStage = 2
        /\ StageRaised(r)
        /\ Failed(r)
        /\ locals[r].progress_callback
        /\ Len(calls[r]) = 2
        /\ Len(notes[r]) = 3

\* The stage keys of a complete run, in execution order.
ExecutedStages == SelectSeq(StageKeys, LAMBDA key : key # "storyboard" \/ use_storyboard)

IsPrefix(s, t) == Len(s) <= Len(t) /\ s = SubSeq(t, 1, Len(s))

IsStrictPrefix(s, t) == IsPrefix(s, t) /\ Len(s) < Len(t)

\* C3 (as claimed): in every run that returned success = false, the keys of
\* project_data['steps'] are a strict prefix of the executed stage sequence,
\* whatever the failure point.
C3_FailureHasStrictPrefix ==
    \A r \in Runs : Failed(r) => IsStrictPrefix(StepKeys(result[r].project_data), ExecutedStages)

\* C4: a run that returned success = true has 'video_path' and no 'error',
\* and its steps hold exactly the stage keys in order, 'storyboard' being
\* absent exactly when use_storyboard is false; a result with 'video_path'
\* and no 'error' has success = true.
C4_SuccessShape ==
    \A r \in Runs : Done(r) =>
        /\ result[r].success =>
              /\ "video_path" \in DOMAIN result[r]
              /\ "error" \notin DOMAIN result[r]
              /\ result[r].video_path = StepVal(result[r].project_data, "final_video")
              /\ StepKeys(result[r].project_data) = ExecutedStages
              /\ HasStep(result[r].project_data, "storyboard") <=> use_storyboard
        /\ ("video_path" \in DOMAIN result[r] /\ "error" \notin DOMAIN result[r])
              => result[r].success

\* A run without the storyboard stage returned success with five stage keys.
C4_Witness ==
    \E r \in Runs :
        /\ Succeeded(r)
        /\ ~use_storyboard
        /\ Len(Steps(result[r].project_data)) = 5
        /\ "video_path" \in DOMAIN result[r]

\* C5 (as claimed): in every run that returned success = false, 'error' is
\* a non-empty string equal to the message of the exception that aborted it.
C5_ErrorNonEmptyMessage ==
    \A r \in Runs : Failed(r) =>
        /\ result[r].error # ""
        /\ result[r].error = Str(locals[r].e)

\* The exception that aborted call r, from the behaviour of the collaborators
\* and the place the call stopped at: the last thing the call did before the
\* except clause.
SinkRaised(r) ==
    \E i \in 1..Len(notes[r]) : <<notes[r][i].step, notes[r][i].phase>> = env.sinkRaisesAt

AbortCause(r) ==
    IF SinkRaised(r) THEN SinkError
    ELSE IF StageRaised(r) THEN env.stageError
    ELSE IF saves[r] > 0 /\ env.writeFails THEN WriteError
    ELSE [type |-> "KeyError", msg |-> "scenes"]

\* C5 (amended): in every run that returned success = false, 'error' is
\* str(e) of the exception that aborted the run; it is the empty string
\* exactly when that exception has an empty message.
C5_ErrorIsStrOfException ==
    \A r \in Runs : Failed(r) =>
        /\ "error" \in DOMAIN result[r]
        /\ result[r].error = Str(AbortCause(r))
        /\ result[r].error = "" <=> AbortCause(r).msg = ""

\* A run aborted by a stage exception with an empty message returned error = "".
C5_Witness ==
    \E r \in Runs :
        /\ Failed(r)
        /\ StageRaised(r)
        /\ env.stageError.msg = ""
        /\ result[r].error = ""

\* C6 (as claimed): metadata persistence is attempted on failure as well:
\* a run in which a stage transform raised has invoked _save_metadata by the
\* time it returns.
C6_SavedOnStageFailure ==
    \A r \in Runs : (Failed(r) /\ StageRaised(r)) => saves[r] >= 1

\* C7 (as claimed): a failing metadata write leaves the outcome alone: a run
\* whose _save_metadata raised returns success = true with video_path, and a
\* run in which a stage raised returns that stage's error.
C7_MetadataFailureHarmless ==
    \A r \in Runs : Done(r) =>
        /\ (saves[r] > 0 /\ env.writeFails) =>
              (result[r].success /\ "video_path" \in DOMAIN result[r])
        /\ (StageRaised(r) /\ ~SinkRaised(r)) =>
              (~result[r].success /\ result[r].error = Str(env.stageError))

\* C8 (as claimed): an exception of the progress sink never aborts the run:
\* it is never the exception that the except clause of run() handles.
C8_SinkCannotAbort ==
    \A r \in Runs : SinkRaised(r) => (pc[r] # Except /\ locals[r].e # SinkError)

\* C9 (as claimed): two completed runs with the same prompt, options and
\* timestamp, one with a progress callback and one without, invoked the same
\* stage transforms with the same arguments, accumulated the same project
\* data, entered _save_metadata as often and returned the same success,
\* video_path and error.
SameOutcome(a, b) ==
    /\ calls[a] = calls[b]
    /\ ProjectOf(a) = ProjectOf(b)
    /\ saves[a] = saves[b]
    /\ result[a].success = result[b].success
    /\ result[a].success => result[a].video_path = result[b].video_path
    /\ ~result[a].success => result[a].error = result[b].error

C9_CallbackAbsenceEquivalent ==
    \A a, b \in Runs :
        ( /\ Done(a) /\ Done(b)
          /\ locals[a].progress_callback /\ ~locals[b].progress_callback
          /\ locals[a].user_prompt = locals[b].user_prompt
          /\ locals[a].timestamp = locals[b].timestamp )
        => SameOutcome(a, b)

\* C10: in the notifications of any run, every notification has total 6 and
\* a step in 1..6, steps never decrease, and a 'starting' notification for
\* step k+1 comes right after the 'completed' notification for step k (after
\* the 'skipped' one for the storyboard step when it is disabled).
C10_NotificationOrder ==
    \A r \in Runs : \A j \in 1..Len(notes[r]) :
        LET n == notes[r][j] IN
        /\ n.total = 6
        /\ n.step \in 1..6
        /\ \A i \in 1..(j - 1) : notes[r][i].step <= n.step
        /\ (n.phase = "starting" /\ n.step > 1) =>
              /\ j > 1
              /\ notes[r][j - 1].step = n.step - 1
              /\ notes[r][j - 1].phase =
                    (IF n.step = 4 /\ ~use_storyboard THEN "skipped" ELSE "completed")

\* A failing run with the storyboard disabled emitted the 'skipped'
\* notification and started step 4 before the clip transform raised.
C10_Witness ==
    \E r \in Runs :
        /\ Failed(r)
        /\ ~use_storyboard
        /\ env.failStage = 4
        /\ Len(notes[r]) = 6
        /\ notes[r][5].phase = "skipped"
        /\ notes[r][6] = [step |-> 4, total |-> 6, phase |-> "starting",
                          detail |-> notes[r][6].detail]

\* The project dict created by call r: calls start in the order of Runs, and
\* each appends its dict to the heap.
OwnProject(r) == r

Started(r) == pc[r] # Entry

CallFns(r) == [i \in 1..Len(calls[r]) |-> calls[r][i].fn]

NotesOfStep(r, k) == SelectSeq(notes[r], LAMBDA n : n.step = k)

\* C11: with use_storyboard false, a run never invokes the storyboard
\* transform and records no 'storyboard' key; its only notification for
\* step 3 is the 'skipped' one, emitted exactly once by the time step 4
\* starts; the video transform gets the scene plan and storyboard_images =
\* None; and a run in which nothing raises goes on through clips, audio and
\* assembly.
C11_StoryboardSkipped ==
    ~use_storyboard => \A r \in Runs :
        /\ \A i \in 1..Len(calls[r]) : calls[r][i].fn # "storyboard_gen.generate"
        /\ Started(r) => ~HasStep(OwnProject(r), "storyboard")
        /\ \A i \in 1..Len(NotesOfStep(r, 3)) : NotesOfStep(r, 3)[i].phase = "skipped"
        /\ Len(NotesOfStep(r, 3)) <= 1
        /\ (locals[r].progress_callback /\ Len(NotesOfStep(r, 4)) > 0)
              => Len(NotesOfStep(r, 3)) = 1
        /\ \A i \in 1..Len(calls[r]) : calls[r][i].fn = "video_gen.generate_clips" =>
              /\ calls[r][i].args.storyboard_images = None
              /\ calls[r][i].args.scene_plan = StepVal(OwnProject(r), "scenes")
        /\ Succeeded(r) =>
              CallFns(r) = <<"script_gen.generate", "scene_planner.create_plan",
                             "video_gen.generate_clips", "audio_gen.generate",
                             "assembler.assemble">>

\* A run with a progress callback and the storyboard disabled succeeded
\* after one notification for step 3 and five transform calls.
C11_Witness ==
    \E r \in Runs :
        /\ ~use_storyboard
        /\ Succeeded(r)
        /\ locals[r].progress_callback
        /\ Len(NotesOfStep(r, 3)) = 1
        /\ Len(calls[r]) = 5
        /\ ~HasStep(OwnProject(r), "storyboard")

\* The output of stage k has been returned to call r and recorded by it.
Recorded(r, k) == locals[r][StageLocal(k)] # None /\ pc[r] # At(k, "record")

\* C12 (as claimed): with the steps of two calls of run interleaved on one
\* instance, every stage output is recorded in the project dict of the call
\* that produced it, and the project_data a call returns is its own dict,
\* holding its own prompt and only its own stage outputs.
C12_RunsIsolated ==
    \A r \in Runs :
        /\ \A k \in 1..NumStages : Recorded(r, k) =>
              /\ HasStep(OwnProject(r), StageKeys[k])
              /\ StepVal(OwnProject(r), StageKeys[k]) = locals[r][StageLocal(k)]
        /\ Done(r) =>
              /\ result[r].project_data = OwnProject(r)
              /\ ProjectOf(r).prompt = locals[r].user_prompt
              /\ \A i \in 1..Len(Steps(result[r].project_data)) :
                    \E k \in 1..NumStages :
                        /\ Steps(result[r].project_data)[i].key = StageKeys[k]
                        /\ Steps(result[r].project_data)[i].val = locals[r][StageLocal(k)]

\* Call r has written its metadata record.
Saved(r) == saves[r] > 0 /\ ~env.writeFails

\* C13 (as claimed): any two runs started on the instance have different
\* identifiers, so their metadata files have different names and the
\* record a run wrote stays in the directory with that run's content.
C13_RunIdsUnique ==
    /\ \A p, q \in 1..Len(heap) : p # q =>
          /\ heap[p].timestamp # heap[q].timestamp
          /\ MetadataName(p) # MetadataName(q)
    /\ \A r \in Runs : Saved(r) =>
          [name |-> MetadataName(OwnProject(r)), content |-> heap[OwnProject(r)]] \in files

\* The upstream response call r gets for its prompt.
ResponseOf(r) == env.upstream[locals[r].user_prompt]

\* Call r has invoked the assembler, so has derived its output filename.
Assembled(r) == \E i \in 1..Len(calls[r]) : calls[r][i].fn = StageFn(6)

\* The reference derivation: an alphanumeric character, a hyphen or an
\* underscore stays, a space becomes an underscore, any other character is
\* dropped; a longer title is derived half by half.
RefAllowed(c) == c \in {"a", "b", "1", "H", "o", "w", "-", "_"}

RECURSIVE RefClean(_)
RefClean(title) ==
    IF Len(title) = 0 THEN <<>>
    ELSE IF Len(title) = 1
         THEN IF title[1] = " " THEN <<"_">>
              ELSE IF RefAllowed(title[1]) THEN <<title[1]>> ELSE <<>>
    ELSE RefClean(SubSeq(title, 1, Len(title) \div 2))
             \o RefClean(SubSeq(title, (Len(title) \div 2) + 1, Len(title)))

RefFilename(title, timestamp) ==
    LET clean == RefClean(title) IN
    (IF Len(clean) > 50 THEN SubSeq(clean, 1, 50) ELSE clean) \o <<"_", timestamp, ".mp4">>

\* C14: when no output_filename is supplied, the filename passed to the
\* assembler and reported by the call is the reference derivation applied
\* to the title of the script the upstream returned and to the timestamp of
\* the run (each space becomes one underscore, every other character outside
\* the allowed set is removed, at most 50 characters are kept), and two
\* calls with the same title and timestamp derive the same filename.
C14_FilenameDerivation ==
    \A r \in Runs : Assembled(r) =>
        /\ locals[r].output_filename = RefFilename(ResponseOf(r).data.title, locals[r].timestamp)
        /\ calls[r][Len(calls[r])].args.output_path = locals[r].output_filename
        /\ \A q \in Runs :
              (/\ Assembled(q)
               /\ ResponseOf(q).data.title = ResponseOf(r).data.title
               /\ locals[q].timestamp = locals[r].timestamp)
                  => locals[q].output_filename = locals[r].output_filename

\* A call derived a 50-character name from a title of 56 characters of
\* which 5 are not allowed.
C14_Witness ==
    \E r \in Runs :
        /\ Assembled(r)
        /\ ResponseOf(r).data.title = SparseTitle(TITLE_LIMIT + 1)
        /\ Len(locals[r].output_filename) = TITLE_LIMIT + 3
        /\ \A i \in 1..TITLE_LIMIT : locals[r].output_filename[i] = "b"

\* The upstream response of call r parsed to a structure with both fields of
\* which one is empty.
EmptyField(resp) ==
    /\ resp.kind = "json"
    /\ {"title", "script"} \subseteq DOMAIN resp.data
    /\ (resp.data.title = <<>> \/ resp.data.script = "")

\* C15 (as claimed): when the upstream response parses to a structure whose
\* title or script is empty, the call invokes no transform after
\* script_gen.generate and does not return success.
C15_EmptyScriptStopsRun ==
    \A r \in Runs : (Started(r) /\ EmptyField(ResponseOf(r))) =>
        /\ Len(calls[r]) <= 1
        /\ Done(r) => ~result[r].success

\* The upstream response of call r is not parseable, or parses to a
\* structure without a required field; it is a failure of the call itself.
StructuralFailure(resp) ==
    \/ resp.kind = "text"
    \/ resp.kind = "json" /\ ~({"title", "script"} \subseteq DOMAIN resp.data)

ProviderFailure(resp) == resp.kind = "error"

\* script_gen.generate has been invoked by call r and has raised / returned.
GenerateRaised(r) == Len(calls[r]) >= 1 /\ locals[r].script_data = None

GenerateReturned(r) == Len(calls[r]) >= 1 /\ locals[r].script_data # None

\* C16 (as claimed): generate returns a structure with both 'title' and
\* 'script' or raises; it raises the same kind of error for an unparseable
\* response and for one that lacks a required field, and a different kind
\* for a failure of the upstream call.
C16_ContentErrorKind ==
    \A r \in Runs :
        /\ GenerateReturned(r) => {"title", "script"} \subseteq DOMAIN locals[r].script_data
        /\ (Len(calls[r]) >= 1 /\ (StructuralFailure(ResponseOf(r)) \/ ProviderFailure(ResponseOf(r))))
              => GenerateRaised(r)
        /\ \A q \in Runs : (GenerateRaised(r) /\ GenerateRaised(q)) =>
              /\ (StructuralFailure(ResponseOf(r)) /\ StructuralFailure(ResponseOf(q)))
                    => locals[r].e.type = locals[q].e.type
              /\ (StructuralFailure(ResponseOf(r)) /\ ProviderFailure(ResponseOf(q)))
                    => locals[r].e.type # locals[q].e.type

\* C17: a missing credential is reported by the constructor: when no key is
\* passed and none is configured the construction ends by raising
\* ValueError, an instance that exists holds a key, and no call of run has
\* started unless the instance exists.
C17_NoPipelineWithoutKey ==
    /\ (pipeline.state # "unbuilt" /\ pipeline.openai_api_key = NoKey
                                   /\ pipeline.OPENAI_API_KEY = NoKey)
          => (pipeline.state = "error" /\ pipeline.error.type = "ValueError")
    /\ pipeline.state = "ready" => pipeline.api_key # NoKey
    /\ \A r \in Runs : Started(r) => (pipeline.state = "ready" /\ pipeline.api_key # NoKey)

\* The constructor raised for want of a key, and no call of run has started.
C17_Witness ==
    /\ pipeline.state = "error"
    /\ pipeline.openai_api_key = NoKey
    /\ pipeline.OPENAI_API_KEY = NoKey
    /\ pipeline.error = [type |-> "ValueError", msg |-> "OpenAI API key is required"]
    /\ \A r \in Runs : ~Started(r)

\* The keys of the stages that run before stage k.
EarlierStages(k) == SelectSeq(SubSeq(StageKeys, 1, k - 1),
                              LAMBDA key : key # "storyboard" \/ use_storyboard)

\* C18: in every step that invokes the transform of stage k, the steps of
\* the run's project dict already hold, in the state the step starts from,
\* the outputs of all earlier executed stages, and the arguments of the
\* invocation are those recorded outputs.
C18_RecordedBeforeNextStage ==
    [][\A r \in Runs : \A k \in 1..NumStages :
          (pc[r] = At(k, "call") /\ Len(calls'[r]) = Len(calls[r]) + 1) =>
              LET a == calls'[r][Len(calls'[r])].args
                  p == OwnProject(r)
              IN  /\ StepKeys(p) = EarlierStages(k)
                  /\ k = 2 => a.script_data = StepVal(p, "script")
                  /\ k = 3 => a.scene_plan = StepVal(p, "scenes")
                  /\ k = 4 => /\ a.scene_plan = StepVal(p, "scenes")
                              /\ a.storyboard_images =
                                    IF use_storyboard THEN StepVal(p, "storyboard") ELSE None
                  /\ k = 5 => a.script_data = StepVal(p, "script")
                  /\ k = 6 => /\ a.clip_paths = StepVal(p, "clips")
                              /\ a.audio_path = StepVal(p, "audio")]_vars

\* The assembler has just been invoked, in a run with the storyboard stage,
\* on the clips and the audio recorded in the steps.
C18_Witness ==
    \E r \in Runs :
        /\ pc[r] = At(6, "record")
        /\ use_storyboard
        /\ StepKeys(OwnProject(r)) = EarlierStages(6)
        /\ Len(StepKeys(OwnProject(r))) = 5
        /\ calls[r][Len(calls[r])].fn = StageFn(6)
        /\ calls[r][Len(calls[r])].args.clip_paths = StepVal(OwnProject(r), "clips")
        /\ calls[r][Len(calls[r])].args.audio_path = StepVal(OwnProject(r), "audio")

\* The number of invocations of the transform of stage k by call r.
Invocations(r, k) == Cardinality({ i \in 1..Len(calls[r]) : calls[r][i].fn = StageFn(k) })

\* C19: a call of run invokes each stage transform at most once; the
\* transform that raised is the last one it invokes; and a call that
\* returned success invoked every transform other than the storyboard
\* generator exactly once.
C19_NoRetryNoSilentSkip ==
    \A r \in Runs :
        /\ \A k \in 1..NumStages : Invocations(r, k) <= 1
        /\ StageRaised(r) => calls[r][Len(calls[r])].fn = StageFn(env.failStage)
        /\ Succeeded(r) => \A k \in 1..NumStages : k # 3 => Invocations(r, k) = 1

\* A call returned success without the storyboard stage after five
\* invocations, and a call returned failure after the video generator raised
\* in its fourth invocation.
C19_Witness ==
    \E r \in Runs :
        \/ /\ Succeeded(r)
           /\ ~use_storyboard
           /\ Len(calls[r]) = 5
           /\ Invocations(r, 3) = 0
           /\ env.failStage = 0
        \/ /\ Failed(r)
           /\ use_storyboard
           /\ env.failStage = 4
           /\ Len(calls[r]) = 4
           /\ Invocations(r, 4) = 1

\* C20: in every step of calls of run one after the other, a project dict
\* keeps its prompt and its timestamp and its steps only grow at the end; a
\* new project dict starts with empty steps; the step that follows the return
\* of the transform of stage k appends the key of stage k, absent until
\* then, with the returned output, and no other step changes any steps; and
\* the project dict a call has returned is not changed by any later step.
C20_StepsAppendOnly ==
    [][/\ Len(heap') >= Len(heap)
       /\ \A p \in 1..Len(heap) :
             /\ heap'[p].prompt = heap[p].prompt
             /\ heap'[p].timestamp = heap[p].timestamp
             /\ IsPrefix(heap[p].steps, heap'[p].steps)
             /\ heap'[p].steps # heap[p].steps => \E r \in Runs, k \in 1..NumStages :
                   /\ pc[r] = At(k, "record")
                   /\ OwnProject(r) = p
                   /\ ~HasStep(p, StageKeys[k])
                   /\ heap'[p].steps = Append(heap[p].steps,
                                              [key |-> StageKeys[k],
                                               val |-> locals[r][StageLocal(k)]])
       /\ \A p \in (Len(heap) + 1)..Len(heap') : heap'[p].steps = <<>>
       /\ \A r \in Runs, k \in 1..NumStages :
             (pc[r] = At(k, "record") /\ pc'[r] # pc[r]) => heap'[OwnProject(r)] # heap[OwnProject(r)]
       /\ \A r \in Runs : Done(r) =>
             heap'[result[r].project_data] = heap[result[r].project_data]]_vars

\* The first call returned its own project dict with all six steps, and the
\* second call has since recorded steps of its own.
C20_Witness ==
    /\ Succeeded(1)
    /\ result[1].project_data = OwnProject(1)
    /\ Len(Steps(OwnProject(1))) = 6
    /\ Started(2)
    /\ Len(Steps(OwnProject(2))) \in 1..5
    /\ heap[OwnProject(2)].prompt # heap[OwnProject(1)].prompt

\* The keys of the steps of a persisted record.
RecordKeys(f) == [i \in 1..Len(f.content.steps) |-> f.content.steps[i].key]

\* C21: in calls of run one after the other, a call invokes _save_metadata
\* at most once, and only when the steps of the project dict it writes hold
\* 'final_video' together with every other executed stage key; every record
\* in the output directory describes a run that completed all its stages.
C21_SavedOnlyWhenComplete ==
    /\ \A r \in Runs :
          /\ saves[r] <= 1
          /\ (pc[r] = At(0, "save_metadata") \/ saves[r] > 0) =>
                /\ HasStep(OwnProject(r), "final_video")
                /\ StepKeys(OwnProject(r)) = ExecutedStages
          /\ pc[r] = At(0, "save_metadata") =>
                /\ saves[r] = 0
                /\ current_project = OwnProject(r)
    /\ \A f \in files :
          /\ RecordKeys(f) = ExecutedStages
          /\ \E r \in Runs : Saved(r) /\ f.content = heap[OwnProject(r)]

\* A call with the storyboard stage wrote its record, with all six stage
\* keys, in its one invocation of _save_metadata.
C21_Witness ==
    \E r \in Runs :
        /\ use_storyboard
        /\ saves[r] = 1
        /\ Saved(r)
        /\ \E f \in files :
              /\ f.name = MetadataName(OwnProject(r))
              /\ Len(RecordKeys(f)) = 6
              /\ RecordKeys(f)[6] = "final_video"

====
